---- MODULE Spec2Model ----
(***************************************************************************)
(* Model of the MCP SQL assistant's tool protocol:                         *)
(*   - the Tool Backend      (src/tools/sql_tools.py, SQLQueryTool),       *)
(*   - the Process Host      (src/server/mcp_server.py, fallback FastMCP   *)
(*                            and the registered tool functions),          *)
(*   - the Client Proxy      (src/client/client_module.py, MCPSQLClient),  *)
(*   - a session             (src/client/client_module.py,                 *)
(*                            run_llm_query_enhanced).                     *)
(*                                                                         *)
(* Text is modelled as a sequence of string fragments: concatenation is \o *)
(* and a fragment WS stands for a run of whitespace, so that str.strip()   *)
(* is an operation on the value and not the identity.                      *)
(***************************************************************************)
EXTENDS Integers, Sequences, FiniteSets, TLC

VARIABLES
    \* ---- Tool Backend (SQLQueryTool instance `sql_tool` of the host) ----
    sql_tool,      \* [executed_queries, last_query, last_result]
    issued,        \* history variable: every query passed to run_query, in call order
    nfail,         \* history variable: number of executions that raised
    lastOp,        \* the last backend method call and what it returned
    \* ---- Process Host ----
    hpc,           \* "none" | "startup" | "idle" | "dispatched" | "exited"
    exitcode,      \* exit status of the host process ("None" while it runs)
    dbReachable,   \* whether the database connection can be verified
    stdin,         \* request lines in the host's input pipe, not yet read
    stdinEOF,      \* the write end of the host's input pipe has been closed
    outbuf,        \* lines printed by the host, still in its sys.stdout buffer
    stdout,        \* lines in the host's output pipe, readable by the proxy
    termSignal,    \* SIGTERM has been sent to the host and not yet delivered
    fed,           \* number of lines written to the host's input pipe so far
    lastReq,       \* the last input line handled by the host and what it did
    \* ---- Client Proxy (MCPSQLClient) ----
    process,       \* self.process: "None" | "Process"
    scriptExists,  \* os.path.exists(self.server_script_path)
    cpc,           \* position of the proxy's coroutine
    returncode,    \* self.process.returncode as the event loop has observed it
    connLost,      \* the event loop has seen the subprocess's pipes close
    cstate,        \* "Unstarted" | "Starting" | "Ready" | "Failed" | "Closed"
    ss_ret,        \* value returned by the last start_server ("None" before)
    ct_ret,        \* record returned by the last call_tool (NoRet before)
    raised,        \* the exception that escaped the last public method, if any
    call,          \* the current/last call_tool invocation: what it wrote and read
    ncalls,        \* number of call_tool invocations so far
    nclose,        \* number of close invocations that have returned
    \* ---- a session (run_llm_query_enhanced) ----
    sess           \* position, inputs and results of one run_llm_query_enhanced call

backendVars == <<sql_tool, issued, nfail, lastOp>>
hostVars    == <<hpc, exitcode, dbReachable, stdin, stdinEOF, outbuf, stdout, termSignal, fed, lastReq>>
clientVars  == <<process, scriptExists, cpc, returncode, connLost, cstate, ss_ret, ct_ret, raised, call, ncalls, nclose>>
clientVarsButCall == <<process, scriptExists, cpc, returncode, connLost, cstate, ss_ret, ct_ret, raised, ncalls, nclose>>
vars        == <<backendVars, hostVars, clientVars, sess>>

----------------------------------------------------------------------------
\* Bounds of the model
MaxRunQueries == 11   \* run_query calls made directly on one SQLQueryTool
MaxFail       == 1    \* executions that raise, per SQLQueryTool
MaxCalls      == 2    \* call_tool invocations per proxy
MaxClose      == 2    \* close invocations per proxy
MaxForeign    == 1    \* lines a foreign host writes to its output
MaxLines      == 2    \* input lines fed to a host / lines written by a foreign host

----------------------------------------------------------------------------
\* Text

WS   == " "
NL   == "\n"
TAB  == "\t"
None == <<"None">>            \* Python's None (str(None) = "None")

\* the fragments str.strip() removes
Whitespace == {WS, NL, TAB}

RECURSIVE lstrip(_)
lstrip(s) == IF s # <<>> /\ Head(s) \in Whitespace THEN lstrip(Tail(s)) ELSE s

RECURSIVE rstrip(_)
rstrip(s) == IF s # <<>> /\ s[Len(s)] \in Whitespace THEN rstrip(SubSeq(s, 1, Len(s) - 1)) ELSE s

\* the element of a one-element set; Only({ e(x) : x \in {v} }) is e(v)
\* with v computed once
Only(S) == CHOOSE x \in S : TRUE

\* str.strip()
strip(s) == rstrip(lstrip(s))

\* str.split(sep): the pieces between the occurrences of sep, at least one
RECURSIVE split_from(_, _, _)
split_from(s, sep, piece) ==
    IF s = <<>> THEN <<piece>>
    ELSE IF Head(s) = sep
         THEN <<piece>> \o split_from(Tail(s), sep, <<>>)
         ELSE split_from(Tail(s), sep, Append(piece, Head(s)))

split(s, sep) == split_from(s, sep, <<>>)

\* `frag in s`, for a fragment that stands for the substring searched
contains(s, frag) == \E i \in DOMAIN s : s[i] = frag

\* s.startswith(frag)
startswith(s, frag) == s # <<>> /\ s[1] = frag

\* the SQL texts the model passes to run_query
Queries == { <<"SELECT a">>, <<WS, "SELECT b", WS>> }

\* what QuerySQLDataBaseTool(db).run(query) does: it returns a text or raises
DbOutcomes == { [raises |-> FALSE, text |-> <<"rows">>],
                [raises |-> TRUE,  text |-> <<"db error">>] }

----------------------------------------------------------------------------
\* Tool Backend: SQLQueryTool

HistoryCap == 10

NewTool == [executed_queries |-> <<>>, last_query |-> None, last_result |-> None]

\* self.executed_queries[-10:] when longer than 10
KeepLast(h) == IF Len(h) > HistoryCap THEN SubSeq(h, Len(h) - HistoryCap + 1, Len(h)) ELSE h

\* SQLQueryTool.run_query: the tool after the call, the returned text, and
\* the queries it executed
run_query(tool, query, oc) ==
    IF ~oc.raises
    THEN [tool |-> [executed_queries |->
                        KeepLast(Append(tool.executed_queries,
                                        [query |-> strip(query), result |-> oc.text])),
                    last_query  |-> strip(query),
                    last_result |-> oc.text],
          ret  |-> oc.text,
          ran  |-> <<[query |-> query, raises |-> FALSE]>>]
    ELSE LET error_msg == <<"Error executing query: ">> \o oc.text
         IN  [tool |-> [executed_queries |-> tool.executed_queries,
                        last_query  |-> strip(query),
                        last_result |-> error_msg],
              ret  |-> error_msg,
              ran  |-> <<[query |-> query, raises |-> TRUE]>>]

\* a plausible slip: the newest history entry is returned, which misses a
\* query whose execution raised
get_last_query_from_history(tool) ==
    IF tool.executed_queries = <<>>
    THEN [query |-> None, result |-> None]
    ELSE tool.executed_queries[Len(tool.executed_queries)]

\* SQLQueryTool.get_last_query
get_last_query(tool) == [query |-> tool.last_query, result |-> tool.last_result]

\* SQLQueryTool.get_query_history
get_query_history(tool) == tool.executed_queries

\* the substring generate_table_ddl looks for
CT == "CREATE TABLE"

\* generate_table_ddl, the loop over the lines of the result: the second
\* tab-separated field of the first line that holds CREATE TABLE, if any
RECURSIVE create_statement(_)
create_statement(lines) ==
    IF lines = <<>> THEN <<>>
    ELSE IF contains(Head(lines), CT)
         THEN LET parts == split(Head(lines), TAB)
              IN  IF Len(parts) > 1 THEN parts[2] ELSE <<>>
         ELSE create_statement(Tail(lines))

\* a plausible slip: the field before the tab is taken (index 0 for 1)
generate_table_ddl_first_field(tool, table_name, oc) ==
    LET query  == <<"SHOW", WS, CT, WS>> \o table_name
        r      == run_query(tool, query, oc)
        result == r.ret
        lines  == split(result, NL)
        first  == IF \E i \in DOMAIN lines : contains(lines[i], CT)
                  THEN split(lines[CHOOSE i \in DOMAIN lines :
                                      /\ contains(lines[i], CT)
                                      /\ \A j \in 1..(i - 1) : ~contains(lines[j], CT)], TAB)[1]
                  ELSE <<>>
    IN  [tool |-> r.tool,
         ret  |-> IF contains(result, CT) /\ first # <<>>
                  THEN <<"-- DDL for table: ">> \o table_name \o <<NL>> \o first \o <<";">>
                  ELSE result,
         ran  |-> r.ran]

\* SQLQueryTool.generate_table_ddl (run_query returns a str for every str
\* query, so the except clause is not reached)
generate_table_ddl(tool, table_name, oc) ==
    LET query == <<"SHOW", WS, CT, WS>> \o table_name
    IN  Only({ [tool |-> r.tool,
                ret  |-> Only({ IF contains(r.ret, CT) /\ stmt # <<>>
                                THEN <<"-- DDL for table: ">> \o table_name \o <<NL>>
                                     \o stmt \o <<";">>
                                ELSE r.ret :
                                stmt \in {create_statement(split(r.ret, NL))} }),
                ran  |-> r.ran] :
               r \in {run_query(tool, query, oc)} })

\* SQLQueryTool.get_all_tables, for an outcome of ListSQLDatabaseTool.run
get_all_tables(listing) ==
    IF listing.raises THEN <<"Error getting table list: ">> \o listing.text ELSE listing.text

DT == "Database Tables"

\* generate_database_schema, the loop that collects the table names
RECURSIVE table_names(_)
table_names(lines) ==
    IF lines = <<>> THEN <<>>
    ELSE LET line == strip(Head(lines))
         IN  (IF line # <<>> /\ ~startswith(line, DT) THEN <<line>> ELSE <<>>)
             \o table_names(Tail(lines))

\* the connection descriptor of the host's SQLQueryTool
db_uri == <<"mysql+pymysql:", "/", "/", "root:@localhost", "/", "mcp_proj1">>

\* generate_database_schema, the loop over the table names: the i-th
\* generate_table_ddl meets the outcome ocs[i]
RECURSIVE schema_blocks(_, _, _, _)
schema_blocks(tool, names, ocs, i) ==
    IF i > Len(names) THEN [tool |-> tool, ret |-> <<>>, ran |-> <<>>]
    ELSE Only({ Only({ [tool |-> rest.tool,
                        ret  |-> <<NL>> \o d.ret \o <<NL>> \o rest.ret,
                        ran  |-> d.ran \o rest.ran] :
                       rest \in {schema_blocks(d.tool, names, ocs, i + 1)} }) :
                d \in {generate_table_ddl(tool, names[i], ocs[i])} })

\* SQLQueryTool.generate_database_schema
generate_database_schema(tool, database_name, listing, ocs) ==
    LET name   == IF database_name \in {None, <<>>}
                  THEN LET pieces == split(db_uri, "/") IN pieces[Len(pieces)]
                  ELSE database_name
        header == <<"-- Complete Database Schema for: ">> \o name
                  \o <<NL, "-- Generated DDL Statements", NL, NL>>
    IN  Only({ [tool |-> blocks.tool, ret |-> header \o blocks.ret, ran |-> blocks.ran] :
               blocks \in { schema_blocks(tool, names, ocs, 1) :
                            names \in {table_names(split(get_all_tables(listing), NL))} } })

NoOp == [op |-> "none", query |-> <<>>, raises |-> FALSE, ret |-> <<>>, hist |-> <<>>]

\* the number of executions in `ran` that raised
RECURSIVE CountRaises(_)
CountRaises(ran) == IF ran = <<>> THEN 0
                    ELSE (IF Head(ran).raises THEN 1 ELSE 0) + CountRaises(Tail(ran))

\* a call of sql_tool.run_query(query) whose execution ends as oc
BRunQuery(query, oc) ==
    /\ Len(issued) < MaxRunQueries
    /\ oc.raises => nfail < MaxFail
    /\ LET r == run_query(sql_tool, query, oc)
       IN  /\ sql_tool' = r.tool
           /\ issued' = issued \o r.ran
           /\ nfail' = nfail + CountRaises(r.ran)
           /\ lastOp' = [op |-> "run_query", query |-> query, raises |-> oc.raises,
                         ret |-> r.ret, hist |-> <<>>]
    /\ UNCHANGED <<hostVars, clientVars, sess>>

\* a call of sql_tool.get_query_history()
BGetQueryHistory ==
    /\ lastOp.op # "get_query_history"
    /\ lastOp' = [op |-> "get_query_history", query |-> <<>>, raises |-> FALSE,
                  ret |-> <<>>, hist |-> get_query_history(sql_tool)]
    /\ UNCHANGED <<sql_tool, issued, nfail, hostVars, clientVars, sess>>

\* a call of sql_tool.get_last_query()
BGetLastQuery ==
    /\ lastOp.op # "get_last_query"
    /\ lastOp' = [op |-> "get_last_query", query |-> <<>>, raises |-> FALSE,
                  ret |-> get_last_query(sql_tool), hist |-> <<>>]
    /\ UNCHANGED <<sql_tool, issued, nfail, hostVars, clientVars, sess>>

\* ---- the DDL operations, over the shapes of the introspection output ----

MaxDdlQueries == 2   \* queries run by the DDL operations on one SQLQueryTool

TableNames == { <<"inventory">>, <<"sales">> }

\* what QuerySQLDataBaseTool.run does for SHOW CREATE TABLE
DdlOutcomes ==
    { [raises |-> FALSE, text |-> <<"inventory", TAB, CT, " inventory (id int)">>],
      [raises |-> FALSE, text |-> <<"[('inventory', '", CT, " inventory (id int)')]">>],
      [raises |-> FALSE, text |-> <<"Table", TAB, "Create Table", NL,
                                    "inventory", TAB, CT, " inventory (", NL, "id int", NL, ")">>],
      [raises |-> FALSE, text |-> <<"-- ", CT, " follows", NL, "inventory", TAB, CT, " inventory ()">>],
      [raises |-> FALSE, text |-> <<CT, " inventory ()", TAB>>],
      [raises |-> FALSE, text |-> <<"Error: table does not exist">>],
      [raises |-> TRUE,  text |-> <<"db error">>],
      [raises |-> TRUE,  text |-> <<"[SQL: SHOW ", CT, " inventory]">>] }

\* what ListSQLDatabaseTool.run("") does
ListingOutcomes ==
    { [raises |-> FALSE, text |-> <<"inventory, sales">>],
      [raises |-> FALSE, text |-> <<"inventory", NL, "sales">>],
      [raises |-> FALSE, text |-> <<DT, ":", NL, WS, "inventory", WS, NL, NL>>],
      [raises |-> FALSE, text |-> <<>>],
      [raises |-> TRUE,  text |-> <<"db error">>] }

\* the outcomes met by the per-table queries of generate_database_schema
SchemaOutcomes ==
    { [raises |-> FALSE, text |-> <<"inventory", TAB, CT, " inventory (id int)">>],
      [raises |-> FALSE, text |-> <<"[('inventory', '", CT, " inventory (id int)')]">>],
      [raises |-> TRUE,  text |-> <<"db error">>] }

\* a call of sql_tool.generate_table_ddl(table_name)
BGenerateTableDdl(table_name, oc) ==
    /\ Len(issued) < MaxDdlQueries
    /\ LET r == generate_table_ddl(sql_tool, table_name, oc)
       IN  /\ sql_tool' = r.tool
           /\ issued' = issued \o r.ran
           /\ nfail' = nfail + CountRaises(r.ran)
           /\ lastOp' = [op |-> "generate_table_ddl", query |-> table_name, raises |-> oc.raises,
                         ret |-> r.ret, hist |-> <<>>, oc |-> oc]
    /\ UNCHANGED <<hostVars, clientVars, sess>>

\* a call of sql_tool.generate_database_schema(database_name)
BGenerateDatabaseSchema(database_name, listing, ocs) ==
    /\ Len(issued) < MaxDdlQueries
    /\ LET r == generate_database_schema(sql_tool, database_name, listing, ocs)
       IN  /\ sql_tool' = r.tool
           /\ issued' = issued \o r.ran
           /\ nfail' = nfail + CountRaises(r.ran)
           /\ lastOp' = [op |-> "generate_database_schema", query |-> database_name,
                         raises |-> listing.raises, ret |-> r.ret, hist |-> <<>>,
                         listing |-> listing, ocs |-> ocs]
    /\ UNCHANGED <<hostVars, clientVars, sess>>

----------------------------------------------------------------------------
\* JSON values, as json.loads / json.dumps exchange them on the wire

T(s)        == <<s>>
JStr(text)  == [t |-> "str", s |-> text]
JNum(n)     == [t |-> "num", n |-> n]
JNull       == [t |-> "null"]
JList(xs)   == [t |-> "list", items |-> xs]
JObj(f)     == [t |-> "obj", f |-> f]
NoArgs      == JObj(<<>>)

\* a line of text that is a JSON document / is not one
JsonLine(v) == [kind |-> "json", val |-> v]
GarbageLine == [kind |-> "garbage"]
BlankLine   == [kind |-> "blank"]

\* dict.get(key, default)
Get(obj, key, default) == IF key \in DOMAIN obj.f THEN obj.f[key] ELSE default

\* str() and repr() of a decoded JSON value; dict items in KeyOrder
KeyOrder == <<"jsonrpc", "id", "method", "params", "name", "arguments",
              "result", "error", "code", "message", "content", "type", "text">>

RECURSIVE PyRepr(_), ReprItems(_), ReprFields(_, _)
PyRepr(v) ==
    CASE v.t = "str"  -> <<"'">> \o v.s \o <<"'">>
      [] v.t = "num"  -> <<ToString(v.n)>>
      [] v.t = "null" -> None
      [] v.t = "list" -> <<"[">> \o ReprItems(v.items) \o <<"]">>
      [] v.t = "obj"  -> <<"{">> \o ReprFields(v.f, 1) \o <<"}">>
ReprItems(xs) ==
    IF xs = <<>> THEN <<>>
    ELSE PyRepr(Head(xs)) \o (IF Tail(xs) = <<>> THEN <<>> ELSE <<", ">> \o ReprItems(Tail(xs)))
ReprFields(f, i) ==
    IF i > Len(KeyOrder) THEN <<>>
    ELSE IF KeyOrder[i] \in DOMAIN f
         THEN <<"'", KeyOrder[i], "': ">> \o PyRepr(f[KeyOrder[i]]) \o <<"; ">> \o ReprFields(f, i + 1)
         ELSE ReprFields(f, i + 1)

PyStr(v) == IF v.t = "str" THEN v.s ELSE PyRepr(v)

----------------------------------------------------------------------------
\* Process Host: the registered tool functions of mcp_server.py

\* names registered with @mcp.tool(name=...)
tools == { "run_query", "get_table_info", "get_last_query",
           "generate_table_ddl", "generate_database_schema", "test_connection" }

\* parameters without / with a default value of each tool function
Required(name) == CASE name = "run_query" -> {"query"}
                    [] name = "generate_table_ddl" -> {"table_name"}
                    [] OTHER -> {}
Optional(name) == CASE name = "get_table_info" -> {"table_name"}
                    [] name = "generate_database_schema" -> {"database_name"}
                    [] OTHER -> {}

\* func(**args) binds: every required parameter is given, no unknown keyword
Binds(name, args) ==
    /\ args.t = "obj"
    /\ Required(name) \subseteq DOMAIN args.f
    /\ DOMAIN args.f \subseteq (Required(name) \cup Optional(name))

\* mcp_server.run_query
srv_run_query(tool, args, oc) ==
    IF args.f["query"].t = "str"
    THEN run_query(tool, args.f["query"].s, oc)
    ELSE \* query.strip() raises in run_query's try and again in its except
         \* clause; the wrapper catches it
         [tool |-> tool, ret |-> <<"Error executing query: ", "AttributeError">>, ran |-> <<>>]

\* mcp_server.get_table_info (SQLQueryTool.get_table_info / get_all_tables)
srv_get_table_info(tool, args, oc) ==
    LET named == /\ "table_name" \in DOMAIN args.f
                 /\ args.f["table_name"] \notin {JNull, JStr(<<>>)}
    IN  [tool |-> tool,
         ret  |-> IF ~oc.raises THEN oc.text
                  ELSE IF named THEN <<"Error getting table info: ">> \o oc.text
                  ELSE <<"Error getting table list: ">> \o oc.text,
         ran  |-> <<>>]

\* mcp_server.get_last_query
srv_get_last_query(tool) ==
    LET query_info == get_last_query(tool)
    IN  [tool |-> tool,
         ret  |-> <<"Last Query: ">> \o query_info.query \o <<"\n\nResult: ">> \o query_info.result,
         ran  |-> <<>>]

TestQuery == <<"SELECT 1 as test">>

\* mcp_server.test_connection
srv_test_connection(tool, oc) ==
    LET r == run_query(tool, TestQuery, oc)
    IN  [tool |-> r.tool, ret |-> <<"Connection successful: ">> \o r.ret, ran |-> r.ran]

\* mcp_server.generate_table_ddl: the name is formatted into the query text
srv_generate_table_ddl(tool, args, oc) ==
    generate_table_ddl(tool, PyStr(args.f["table_name"]), oc)

\* `not database_name`
Falsy(v) == v \in {JNull, JStr(<<>>), JNum(0), JList(<<>>), JObj(<<>>)}

\* the table listing of the host's database when it answers as oc
HostListing(oc) ==
    [raises |-> oc.raises, text |-> IF oc.raises THEN oc.text ELSE <<"inventory", NL, "sales">>]

\* mcp_server.generate_database_schema; the database answers the listing
\* and every introspection query of one call alike
srv_generate_database_schema(tool, args, oc) ==
    LET database_name == Get(args, "database_name", JNull)
    IN  generate_database_schema(tool,
                                 IF Falsy(database_name) THEN None ELSE PyStr(database_name),
                                 HostListing(oc),
                                 [i \in 1..2 |-> oc])

\* self.tools[tool_name](**args), once the arguments are bound
CallToolFn(name, tool, args, oc) ==
    CASE name = "run_query"       -> srv_run_query(tool, args, oc)
      [] name = "get_table_info"  -> srv_get_table_info(tool, args, oc)
      [] name = "get_last_query"  -> srv_get_last_query(tool)
      [] name = "test_connection" -> srv_test_connection(tool, oc)
      [] name = "generate_table_ddl"       -> srv_generate_table_ddl(tool, args, oc)
      [] name = "generate_database_schema" -> srv_generate_database_schema(tool, args, oc)

\* a plausible slip: a result text that reports a failed query is sent as an
\* error response
ResultResponseFlagsFailure(id, result) ==
    IF result # <<>> /\ result[1] = "Error executing query: "
    THEN JsonLine(JObj([jsonrpc |-> JStr(T("2.0")), id |-> id,
                        error |-> JObj([code |-> JNum(-1), message |-> JStr(result)])]))
    ELSE JsonLine(JObj([jsonrpc |-> JStr(T("2.0")), id |-> id,
                        result |-> JObj([content |->
                            JList(<<JObj([type |-> JStr(T("text")), text |-> JStr(result)])>>)])]))

ResultResponse(id, result) ==
    JsonLine(JObj([jsonrpc |-> JStr(T("2.0")), id |-> id,
                   result |-> JObj([content |->
                       JList(<<JObj([type |-> JStr(T("text")), text |-> JStr(result)])>>)])]))

ErrorCode == -1

\* a plausible slip: the error response is built without the request's id
ErrorResponseWithoutId(id, message) ==
    JsonLine(JObj([jsonrpc |-> JStr(T("2.0")), id |-> JNull,
                   error |-> JObj([code |-> JNum(ErrorCode), message |-> JStr(message)])]))

ErrorResponse(id, message) ==
    JsonLine(JObj([jsonrpc |-> JStr(T("2.0")), id |-> id,
                   error |-> JObj([code |-> JNum(ErrorCode), message |-> JStr(message)])]))

\* the outcome of handling one line: lines printed, exception caught and
\* logged by process_request, whether a tool function was invoked
Handled(tool, responses, caught, invoked, ran) ==
    [tool |-> tool, responses |-> responses, caught |-> caught, invoked |-> invoked, ran |-> ran]

\* a plausible slip: the table is indexed without the membership test, the
\* KeyError is caught and logged by process_request, nothing is printed
UnknownToolUnanswered(tool, id, tool_name) ==
    Handled(tool, <<>>, "KeyError", FALSE, <<>>)

\* process_request, the branch for a name that is not in self.tools
UnknownTool(tool, id, tool_name) ==
    Handled(tool,
            <<ErrorResponse(id, <<"Tool ">> \o
                  (IF tool_name.t = "str" THEN tool_name.s ELSE PyRepr(tool_name))
                  \o <<" not found">>)>>,
            "none", FALSE, <<>>)

\* the dispatch of a tools/call request whose params carry a name
Dispatch(request, tool, oc) ==
    LET params    == request.f["params"]
        tool_name == params.f["name"]
        args      == Get(params, "arguments", NoArgs)
        id        == Get(request, "id", JNull)
    IN  IF tool_name.t \in {"list", "obj"}
        THEN Handled(tool, <<>>, "TypeError", FALSE, <<>>)
        ELSE IF tool_name.t = "str" /\ Len(tool_name.s) = 1 /\ tool_name.s[1] \in tools
        THEN IF ~Binds(tool_name.s[1], args)
             THEN Handled(tool, <<>>, "TypeError", FALSE, <<>>)
             ELSE Only({ Handled(r.tool, <<ResultResponse(id, r.ret)>>, "none", TRUE, r.ran) :
                         r \in {CallToolFn(tool_name.s[1], tool, args, oc)} })
        ELSE UnknownTool(tool, id, tool_name)

\* a plausible slip: the response is printed by the dispatcher and again
\* by its caller, so each request is answered by two lines
process_request_prints_twice(request_line, tool, oc) ==
    IF /\ request_line.kind = "json" /\ request_line.val.t = "obj"
       /\ Get(request_line.val, "method", JStr(<<>>)) = JStr(T("tools/call"))
       /\ "params" \in DOMAIN request_line.val.f
       /\ request_line.val.f["params"].t = "obj"
       /\ "name" \in DOMAIN request_line.val.f["params"].f
    THEN Only({ Handled(h.tool, h.responses \o h.responses, h.caught, h.invoked, h.ran) :
                h \in {Dispatch(request_line.val, tool, oc)} })
    ELSE Handled(tool, <<>>, "none", FALSE, <<>>)

\* FastMCP.process_request
process_request(request_line, tool, oc) ==
    IF request_line.kind # "json"
    THEN Handled(tool, <<>>, "JSONDecodeError", FALSE, <<>>)
    ELSE LET request == request_line.val
         IN  IF request.t # "obj"
             THEN Handled(tool, <<>>, "AttributeError", FALSE, <<>>)
             ELSE IF Get(request, "method", JStr(<<>>)) # JStr(T("tools/call"))
             THEN Handled(tool, <<>>, "none", FALSE, <<>>)
             ELSE IF "params" \notin DOMAIN request.f
             THEN Handled(tool, <<>>, "KeyError", FALSE, <<>>)
             ELSE IF request.f["params"].t # "obj"
             THEN Handled(tool, <<>>, "TypeError", FALSE, <<>>)
             ELSE IF "name" \notin DOMAIN request.f["params"].f
             THEN Handled(tool, <<>>, "KeyError", FALSE, <<>>)
             ELSE Dispatch(request, tool, oc)

\* a plausible slip: a request with another method is answered with an
\* error response instead of being dropped
run_line_answers_every_method(line, tool, oc) ==
    IF line.kind = "blank"
    THEN Handled(tool, <<>>, "none", FALSE, <<>>)
    ELSE IF /\ line.kind = "json" /\ line.val.t = "obj"
            /\ Get(line.val, "method", JStr(<<>>)) # JStr(T("tools/call"))
         THEN Handled(tool, <<ErrorResponse(Get(line.val, "id", JNull), <<"Method not found">>)>>,
                      "none", FALSE, <<>>)
         ELSE process_request(line, tool, oc)

\* the body of FastMCP.run's loop for one line returned by input()
run_line(line, tool, oc) ==
    IF line.kind = "blank"
    THEN Handled(tool, <<>>, "none", FALSE, <<>>)
    ELSE process_request(line, tool, oc)

----------------------------------------------------------------------------
\* Process Host: the process (module body, __main__ block, FastMCP.run)

\* module body: SQLQueryTool(db_uri) raises when the connection cannot be
\* verified, and the host exits with status 1 before mcp.run is reached
HostInitFail ==
    /\ hpc = "startup"
    /\ ~dbReachable
    /\ hpc' = "exited"
    /\ exitcode' = "1"
    /\ termSignal' = FALSE
    /\ UNCHANGED <<backendVars, dbReachable, stdin, stdinEOF, outbuf, stdout, fed, lastReq, clientVars, sess>>

\* module body and __main__: the tool is built, test_connection() runs once,
\* mcp.run() enters the loop and blocks in input()
HostInitOk(oc) ==
    /\ hpc = "startup"
    /\ dbReachable
    /\ LET r == srv_test_connection(NewTool, oc)
       IN  /\ sql_tool' = r.tool
           /\ issued' = issued \o r.ran
           /\ nfail' = nfail + CountRaises(r.ran)
    /\ hpc' = "idle"
    /\ UNCHANGED <<lastOp, exitcode, dbReachable, stdin, stdinEOF, outbuf, stdout, termSignal, fed, lastReq, clientVars, sess>>

\* bookkeeping: each printed line remembers the number of the input line it
\* answers (the field `for` is not part of the bytes on the wire)
AnswerTo(lines, n) ==
    [i \in DOMAIN lines |-> [kind |-> lines[i].kind, val |-> lines[i].val, for |-> n]]

\* a plausible slip: process_request lets the exception escape and the
\* loop's handler leaves the loop, so the process ends on the first bad line
HostHandleBreaksOnError(oc) ==
    /\ hpc = "idle"
    /\ stdin # <<>>
    /\ LET h == run_line(Head(stdin), sql_tool, oc)
       IN  /\ sql_tool' = h.tool
           /\ issued' = issued \o h.ran
           /\ nfail' = nfail + CountRaises(h.ran)
           /\ outbuf' = outbuf \o AnswerTo(h.responses, lastReq.n + 1)
           /\ lastReq' = [n |-> lastReq.n + 1, line |-> Head(stdin), responses |-> h.responses,
                          invoked |-> h.invoked, caught |-> h.caught, prev |-> lastReq.line]
           /\ hpc' = (IF h.caught # "none" THEN "exited" ELSE "dispatched")
           /\ exitcode' = (IF h.caught # "none" THEN "0" ELSE exitcode)
    /\ stdin' = Tail(stdin)
    /\ UNCHANGED <<lastOp, dbReachable, stdinEOF, stdout, termSignal, fed, clientVars, sess>>

\* FastMCP.run: input() returns a line; a non-blank line goes to
\* process_request, whose response (if any) is printed into sys.stdout
HostHandle(oc) ==
    /\ hpc = "idle"
    /\ stdin # <<>>
    /\ \E h \in {run_line(Head(stdin), sql_tool, oc)} :
           /\ sql_tool' = h.tool
           /\ issued' = issued \o h.ran
           /\ nfail' = nfail + CountRaises(h.ran)
           /\ outbuf' = outbuf \o AnswerTo(h.responses, lastReq.n + 1)
           /\ lastReq' = [n |-> lastReq.n + 1, line |-> Head(stdin), responses |-> h.responses,
                          invoked |-> h.invoked, caught |-> h.caught, prev |-> lastReq.line]
    /\ stdin' = Tail(stdin)
    /\ hpc' = "dispatched"
    /\ UNCHANGED <<lastOp, exitcode, dbReachable, stdinEOF, stdout, termSignal, fed, clientVars, sess>>

\* a plausible slip: the line is read from sys.stdin directly, which does
\* not flush sys.stdout; the printed response stays in the buffer
HostInputNoFlush ==
    /\ hpc = "dispatched"
    /\ hpc' = "idle"
    /\ UNCHANGED <<backendVars, exitcode, dbReachable, stdin, stdinEOF, outbuf, stdout, termSignal, fed, lastReq, clientVars, sess>>

\* FastMCP.run: the loop calls input() again; input() flushes sys.stdout
\* before it blocks on the next line
HostInput ==
    /\ hpc = "dispatched"
    /\ stdout' = stdout \o outbuf
    /\ outbuf' = <<>>
    /\ hpc' = "idle"
    /\ UNCHANGED <<backendVars, exitcode, dbReachable, stdin, stdinEOF, termSignal, fed, lastReq, clientVars, sess>>

\* a plausible slip: EOFError falls to the generic handler, which logs it,
\* and the loop calls input() again
HostEOFContinues ==
    /\ hpc = "idle"
    /\ stdin = <<>>
    /\ stdinEOF
    /\ UNCHANGED vars

\* FastMCP.run: input() raises EOFError, the loop breaks, the process ends
HostEOF ==
    /\ hpc = "idle"
    /\ stdin = <<>>
    /\ stdinEOF
    /\ hpc' = "exited"
    /\ exitcode' = "0"
    /\ termSignal' = FALSE
    /\ UNCHANGED <<backendVars, dbReachable, stdin, stdinEOF, outbuf, stdout, fed, lastReq, clientVars, sess>>

\* ---- the host alone, fed lines by its environment ----

RequestId == 1

\* the request line call_tool builds
Request(tool_name, arguments) ==
    JsonLine(JObj([jsonrpc |-> JStr(T("2.0")), id |-> JNum(RequestId),
                   method |-> JStr(T("tools/call")),
                   params |-> JObj([name |-> JStr(T(tool_name)), arguments |-> arguments])]))

QueryArgs(q) == JObj([query |-> JStr(q)])

\* lines a host may find on its input
InputLines ==
    { Request("run_query", QueryArgs(q)) : q \in Queries } \cup
    { Request("run_query", NoArgs),
      Request("run_query", JObj([query |-> JNum(7)])),
      Request("get_last_query", NoArgs),
      Request("get_table_info", NoArgs),
      Request("test_connection", NoArgs),
      Request("generate_table_ddl", JObj([table_name |-> JStr(<<"inventory">>)])),
      Request("generate_database_schema", NoArgs),
      Request("drop_table", NoArgs),
      JsonLine(JObj([jsonrpc |-> JStr(T("2.0")), method |-> JStr(T("tools/call")),
                     params |-> JObj([name |-> JStr(T("get_last_query"))])])),
      JsonLine(JObj([jsonrpc |-> JStr(T("2.0")), id |-> JNum(2), method |-> JStr(T("initialize"))])),
      JsonLine(JObj([jsonrpc |-> JStr(T("2.0")), id |-> JNum(2), method |-> JStr(T("tools/call"))])),
      JsonLine(JObj([jsonrpc |-> JStr(T("2.0")), id |-> JNum(2),
                     params |-> JObj([name |-> JStr(T("test_connection"))])])),
      JsonLine(JList(<<>>)),
      GarbageLine,
      BlankLine }

FeedLine(line) ==
    /\ hpc \in {"startup", "idle", "dispatched"}
    /\ ~stdinEOF
    /\ fed < MaxLines
    /\ stdin' = Append(stdin, line)
    /\ fed' = fed + 1
    /\ UNCHANGED <<backendVars, hpc, exitcode, dbReachable, stdinEOF, outbuf, stdout, termSignal, lastReq, clientVars, sess>>

FeedEOF ==
    /\ hpc \in {"startup", "idle", "dispatched"}
    /\ ~stdinEOF
    /\ stdinEOF' = TRUE
    /\ UNCHANGED <<backendVars, hpc, exitcode, dbReachable, stdin, outbuf, stdout, termSignal, fed, lastReq, clientVars, sess>>

----------------------------------------------------------------------------
\* Client Proxy: MCPSQLClient

\* the outcome of a block of code: it returns a value or raises
Returns(value)    == [exc |-> "none", msg |-> <<>>, value |-> value]
Raises(exc, msg)  == [exc |-> exc, msg |-> msg, value |-> <<>>]

Envelope(error, result) == [error |-> error, result |-> result]

NotStarted == Envelope(TRUE, <<"MCP server not started">>)
TimedOut   == Envelope(TRUE, <<"Request timeout">>)
NoResponse == Envelope(TRUE, <<"No response from server">>)

UndecodableLine == [kind |-> "badutf8"]

\* call_tool, from json.loads(response_line.decode()) to the end of the try
decode_response(response_line) ==
    CASE response_line.kind = "badutf8" -> Raises("UnicodeDecodeError", <<"invalid start byte">>)
      [] response_line.kind \in {"garbage", "blank"} -> Raises("JSONDecodeError", <<"Expecting value">>)
      [] response_line.kind = "json" ->
         LET response == response_line.val
         IN  CASE response.t \in {"num", "null"} ->
                    Raises("TypeError", <<"argument is not iterable">>)
               [] response.t = "str" ->
                    IF "error" \in {response.s[i] : i \in DOMAIN response.s}
                    THEN Raises("TypeError", <<"string indices must be integers">>)
                    ELSE Raises("AttributeError", <<"no attribute 'get'">>)
               [] response.t = "list" ->
                    IF JStr(T("error")) \in {response.items[i] : i \in DOMAIN response.items}
                    THEN Raises("TypeError", <<"list indices must be integers">>)
                    ELSE Raises("AttributeError", <<"no attribute 'get'">>)
               [] response.t = "obj" ->
                    IF "error" \in DOMAIN response.f
                    THEN Returns(Envelope(TRUE, PyStr(response.f["error"])))
                    ELSE LET result == Get(response, "result", JObj(<<>>))
                         IN  IF result.t = "obj" /\ "content" \in DOMAIN result.f
                             THEN LET content == result.f["content"]
                                  IN  IF content.t = "list" /\ content.items # <<>>
                                      THEN IF content.items[1].t = "obj"
                                           THEN LET text == Get(content.items[1], "text", JStr(<<>>))
                                                \* the value is returned as it is, a str when it is one
                                                IN  Returns(Envelope(FALSE,
                                                        IF text.t = "str" THEN text.s ELSE text))
                                           ELSE Raises("AttributeError", <<"no attribute 'get'">>)
                                      ELSE Returns(Envelope(FALSE, PyStr(content)))
                             ELSE Returns(Envelope(FALSE, PyStr(result)))

\* a plausible slip: only the JSON decode error is handled
call_tool_except_json_only(out) ==
    IF out.exc = "none" THEN Returns(out.value)
    ELSE IF out.exc = "JSONDecodeError"
         THEN Returns(Envelope(TRUE, <<"Invalid response from server">>))
         ELSE out

\* the except clauses of call_tool: what the caller gets for an outcome of
\* the try block
call_tool_except(out) ==
    IF out.exc = "none" THEN Returns(out.value)
    ELSE IF out.exc = "JSONDecodeError"
         THEN Returns(Envelope(TRUE, <<"Invalid response from server">>))
         ELSE Returns(Envelope(TRUE, out.msg))

NoExc  == [op |-> "none", exc |-> "none"]
NoRet  == [none |-> TRUE]
NoLine == [kind |-> "none"]
NoCall == [tool |-> "none", from |-> "none", spawned |-> FALSE, writes |-> 0, reads |-> 0,
           line |-> NoLine, reqno |-> 0, hostGone |-> FALSE, got |-> NoLine,
           timedOut |-> FALSE, nlines |-> 0]

\* the end of a call_tool invocation whose try block (or early return) ended as out
CallEnds(out) ==
    LET r == call_tool_except(out)
    IN  /\ ct_ret' = (IF r.exc = "none" THEN r.value ELSE NoRet)
        /\ raised' = (IF r.exc = "none" THEN NoExc ELSE [op |-> "call_tool", exc |-> r.exc])
        /\ cpc' = "idle"

\* start_server: the server script does not exist
StartNoScript ==
    /\ cpc = "idle" /\ cstate = "Unstarted"
    /\ ~scriptExists
    /\ ss_ret' = "False"
    /\ cstate' = "Failed"
    /\ raised' = NoExc
    /\ UNCHANGED <<backendVars, hostVars, process, scriptExists, cpc, returncode, connLost, ct_ret, call, ncalls, nclose, sess>>

\* start_server: create_subprocess_exec raises
StartSpawnFails ==
    /\ cpc = "idle" /\ cstate = "Unstarted"
    /\ scriptExists
    /\ ss_ret' = "False"
    /\ cstate' = "Failed"
    /\ raised' = NoExc
    /\ UNCHANGED <<backendVars, hostVars, process, scriptExists, cpc, returncode, connLost, ct_ret, call, ncalls, nclose, sess>>

\* start_server: the subprocess is spawned, the coroutine sleeps 1 second
StartSpawn ==
    /\ cpc = "idle" /\ cstate = "Unstarted"
    /\ scriptExists
    /\ process' = "Process"
    /\ hpc' = "startup"
    /\ cpc' = "ss_sleep"
    /\ cstate' = "Starting"
    /\ UNCHANGED <<backendVars, exitcode, dbReachable, stdin, stdinEOF, outbuf, stdout, termSignal, fed, lastReq,
                   scriptExists, returncode, connLost, ss_ret, ct_ret, raised, call, ncalls, nclose, sess>>

\* start_server: after the sleep, self.process.returncode decides
StartCheck ==
    /\ cpc = "ss_sleep"
    /\ IF returncode # "None"
       THEN cpc' = "ss_stderr" /\ UNCHANGED <<ss_ret, cstate>>
       ELSE ss_ret' = "True" /\ cstate' = "Ready" /\ cpc' = "idle"
    /\ raised' = NoExc
    /\ UNCHANGED <<backendVars, hostVars, process, scriptExists, returncode, connLost, ct_ret, call, ncalls, nclose, sess>>

\* start_server: the subprocess was found exited; its stderr is read to the
\* end, the message is logged and False is returned
StartReadStderr ==
    /\ cpc = "ss_stderr"
    /\ ss_ret' = "False"
    /\ cstate' = "Failed"
    /\ cpc' = "idle"
    /\ raised' = NoExc
    /\ UNCHANGED <<backendVars, hostVars, process, scriptExists, returncode, connLost, ct_ret, call, ncalls, nclose, sess>>

\* the event loop's child watcher sets the subprocess's returncode
LoopReap ==
    /\ process = "Process"
    /\ hpc = "exited"
    /\ returncode = "None"
    /\ returncode' = exitcode
    /\ UNCHANGED <<backendVars, hostVars, process, scriptExists, cpc, connLost, cstate, ss_ret, ct_ret, raised, call, ncalls, nclose, sess>>

\* the event loop sees the pipes of the exited subprocess close
LoopPipesLost ==
    /\ process = "Process"
    /\ hpc = "exited"
    /\ ~connLost
    /\ connLost' = TRUE
    /\ UNCHANGED <<backendVars, hostVars, process, scriptExists, cpc, returncode, cstate, ss_ret, ct_ret, raised, call, ncalls, nclose, sess>>

\* call_tool with self.process None
CallNotStarted(tool_name, arguments) ==
    /\ cpc = "idle"
    /\ ncalls < MaxCalls
    /\ process = "None"
    /\ ncalls' = ncalls + 1
    /\ call' = [tool |-> tool_name, from |-> cstate, spawned |-> FALSE, writes |-> 0, reads |-> 0,
                line |-> NoLine, reqno |-> 0, hostGone |-> (hpc = "exited"), got |-> NoLine,
                timedOut |-> call.timedOut, nlines |-> call.nlines]
    /\ CallEnds(Returns(NotStarted))
    /\ UNCHANGED <<backendVars, hostVars, process, scriptExists, returncode, connLost, cstate, ss_ret, nclose, sess>>

\* call_tool: stdin.write on the pipe of an exited subprocess; drain raises
CallBrokenPipe(tool_name, arguments) ==
    /\ cpc = "idle"
    /\ ncalls < MaxCalls
    /\ process = "Process"
    /\ hpc = "exited"
    /\ ncalls' = ncalls + 1
    /\ call' = [tool |-> tool_name, from |-> cstate, spawned |-> TRUE, writes |-> 1, reads |-> 0,
                line |-> Request(tool_name, arguments), reqno |-> 0, hostGone |-> TRUE, got |-> NoLine,
                timedOut |-> call.timedOut, nlines |-> call.nlines]
    /\ connLost' = TRUE
    /\ CallEnds(Raises("ConnectionResetError", <<"Connection lost">>))
    /\ UNCHANGED <<backendVars, hostVars, process, scriptExists, returncode, cstate, ss_ret, nclose, sess>>

\* a plausible slip: the calls of a session are started together (gathered)
\* instead of awaited one after the other, so a request is written while the
\* read of the previous call is still pending
CallSendPipelined(tool_name, arguments) ==
    /\ cpc \in {"idle", "ct_read"}
    /\ ncalls < MaxCalls
    /\ process = "Process"
    /\ hpc # "exited" \/ ~connLost
    /\ ncalls' = ncalls + 1
    /\ call' = [tool |-> tool_name, from |-> cstate, spawned |-> TRUE, writes |-> 1, reads |-> 0,
                line |-> Request(tool_name, arguments),
                reqno |-> (IF hpc # "exited" THEN fed + 1 ELSE 0),
                hostGone |-> (hpc = "exited"), got |-> NoLine,
                timedOut |-> call.timedOut, nlines |-> call.nlines]
    /\ IF hpc # "exited"
       THEN stdin' = Append(stdin, Request(tool_name, arguments)) /\ fed' = fed + 1
       ELSE UNCHANGED <<stdin, fed>>
    /\ cpc' = "ct_read"
    /\ UNCHANGED <<backendVars, hpc, exitcode, dbReachable, stdinEOF, outbuf, stdout, termSignal, lastReq,
                   process, scriptExists, returncode, connLost, cstate, ss_ret, ct_ret, raised, nclose, sess>>

\* call_tool: the request line is written and drained; the read begins.
\* Bytes written to the pipe of a subprocess that has exited are lost; until
\* the event loop has run the pipes' connection-lost callbacks drain returns
\* normally and the read is reached.
CallSend(tool_name, arguments) ==
    /\ cpc = "idle"
    /\ ncalls < MaxCalls
    /\ process = "Process"
    /\ hpc # "exited" \/ ~connLost
    /\ ncalls' = ncalls + 1
    /\ call' = [tool |-> tool_name, from |-> cstate, spawned |-> TRUE, writes |-> 1, reads |-> 0,
                line |-> Request(tool_name, arguments),
                reqno |-> (IF hpc # "exited" THEN fed + 1 ELSE 0),
                hostGone |-> (hpc = "exited"), got |-> NoLine,
                timedOut |-> call.timedOut, nlines |-> call.nlines]
    /\ IF hpc # "exited"
       THEN stdin' = Append(stdin, Request(tool_name, arguments)) /\ fed' = fed + 1
       ELSE UNCHANGED <<stdin, fed>>
    /\ cpc' = "ct_read"
    /\ UNCHANGED <<backendVars, hpc, exitcode, dbReachable, stdinEOF, outbuf, stdout, termSignal, lastReq,
                   process, scriptExists, returncode, connLost, cstate, ss_ret, ct_ret, raised, nclose, sess>>

\* call_tool: readline returns a line
CallReadLine ==
    /\ cpc = "ct_read"
    /\ stdout # <<>>
    /\ stdout' = Tail(stdout)
    /\ call' = [call EXCEPT !.reads = @ + 1, !.got = Head(stdout), !.nlines = @ + 1]
    /\ CallEnds(decode_response(Head(stdout)))
    /\ UNCHANGED <<backendVars, hpc, exitcode, dbReachable, stdin, stdinEOF, outbuf, termSignal, fed, lastReq,
                   process, scriptExists, returncode, connLost, cstate, ss_ret, ncalls, nclose, sess>>

\* call_tool: readline returns b'' at end of stream
CallReadEOF ==
    /\ cpc = "ct_read"
    /\ stdout = <<>>
    /\ hpc = "exited"
    /\ call' = [call EXCEPT !.reads = @ + 1]
    /\ CallEnds(Returns(NoResponse))
    /\ UNCHANGED <<backendVars, hostVars, process, scriptExists, returncode, connLost, cstate, ss_ret, ncalls, nclose, sess>>

\* a plausible slip: readline awaited without wait_for, so no timer ever fires
CallTimeoutNever ==
    /\ FALSE
    /\ UNCHANGED vars

\* a plausible slip: on expiry the request is written again and the read repeated
CallTimeoutResend ==
    /\ cpc = "ct_read"
    /\ stdout = <<>>
    /\ hpc # "exited"
    /\ call.writes < 3
    /\ call' = [call EXCEPT !.writes = @ + 1, !.reads = @ + 1]
    /\ stdin' = Append(stdin, call.line)
    /\ UNCHANGED <<backendVars, hpc, exitcode, dbReachable, stdinEOF, outbuf, stdout, termSignal, fed, lastReq,
                   clientVarsButCall, sess>>

\* call_tool: asyncio.wait_for expires after 30 seconds without a line
CallTimeout ==
    /\ cpc = "ct_read"
    /\ stdout = <<>>
    /\ hpc # "exited"
    /\ call' = [call EXCEPT !.reads = @ + 1, !.timedOut = TRUE]
    /\ CallEnds(Returns(TimedOut))
    /\ UNCHANGED <<backendVars, hostVars, process, scriptExists, returncode, connLost, cstate, ss_ret, ncalls, nclose, sess>>

\* close with self.process None
CloseNoProcess ==
    /\ cpc = "idle"
    /\ nclose < MaxClose
    /\ process = "None"
    /\ nclose' = nclose + 1
    /\ cstate' = "Closed"
    /\ raised' = NoExc
    /\ UNCHANGED <<backendVars, hostVars, process, scriptExists, cpc, returncode, connLost, ss_ret, ct_ret, call, ncalls, sess>>

\* close: terminate() on a subprocess whose transport is already finished
\* raises ProcessLookupError, which close does not catch
CloseTerminateRaises ==
    /\ cpc = "idle"
    /\ nclose < MaxClose
    /\ process = "Process"
    /\ returncode # "None" /\ connLost
    /\ raised # [op |-> "close", exc |-> "ProcessLookupError"]
    /\ raised' = [op |-> "close", exc |-> "ProcessLookupError"]
    /\ UNCHANGED <<backendVars, hostVars, process, scriptExists, cpc, returncode, connLost, cstate, ss_ret, ct_ret, call, ncalls, nclose, sess>>

\* close: terminate() signals the subprocess; the coroutine waits up to 5 seconds
CloseTerminate ==
    /\ cpc = "idle"
    /\ nclose < MaxClose
    /\ process = "Process"
    /\ ~(returncode # "None" /\ connLost)
    /\ termSignal' = (hpc # "exited")
    /\ cpc' = "cl_wait"
    /\ UNCHANGED <<backendVars, hpc, exitcode, dbReachable, stdin, stdinEOF, outbuf, stdout, fed, lastReq,
                   process, scriptExists, returncode, connLost, cstate, ss_ret, ct_ret, raised, call, ncalls, nclose, sess>>

\* close: process.wait() returns within the 5 seconds
CloseWaited ==
    /\ cpc = "cl_wait"
    /\ returncode # "None"
    /\ cpc' = "idle"
    /\ nclose' = nclose + 1
    /\ cstate' = "Closed"
    /\ raised' = NoExc
    /\ UNCHANGED <<backendVars, hostVars, process, scriptExists, returncode, connLost, ss_ret, ct_ret, call, ncalls, sess>>

\* close: the 5 seconds expire, kill() is sent
CloseWaitTimeout ==
    /\ cpc = "cl_wait"
    /\ returncode = "None"
    /\ IF hpc # "exited"
       THEN hpc' = "exited" /\ exitcode' = "-9" /\ outbuf' = <<>>
       ELSE UNCHANGED <<hpc, exitcode, outbuf>>
    /\ termSignal' = FALSE
    /\ cpc' = "cl_killwait"
    /\ UNCHANGED <<backendVars, dbReachable, stdin, stdinEOF, stdout, fed, lastReq,
                   process, scriptExists, returncode, connLost, cstate, ss_ret, ct_ret, raised, call, ncalls, nclose, sess>>

\* close: process.wait() returns after the kill
CloseKillWaited ==
    /\ cpc = "cl_killwait"
    /\ returncode # "None"
    /\ cpc' = "idle"
    /\ nclose' = nclose + 1
    /\ cstate' = "Closed"
    /\ raised' = NoExc
    /\ UNCHANGED <<backendVars, hostVars, process, scriptExists, returncode, connLost, ss_ret, ct_ret, call, ncalls, sess>>

\* the subprocess dies of the SIGTERM sent by terminate(); what sits in its
\* sys.stdout buffer is lost
HostSigterm ==
    /\ termSignal
    /\ hpc \in {"startup", "idle", "dispatched"}
    /\ hpc' = "exited"
    /\ exitcode' = "-15"
    /\ outbuf' = <<>>
    /\ termSignal' = FALSE
    /\ UNCHANGED <<backendVars, dbReachable, stdin, stdinEOF, stdout, fed, lastReq, clientVars, sess>>

----------------------------------------------------------------------------
\* A session: run_llm_query_enhanced, with the results of start_server,
\* call_tool, generate_response and close as its inputs

MaxSessionQueries == 2   \* SQL queries extracted from one LLM response

\* the record the function returns
Result(error, output, sql_queries) == [error |-> error, output |-> output, sql_queries |-> sql_queries]

NoSess == [pc |-> "none", user_query |-> {}, server_started |-> "None", calls |-> <<>>,
           llm |-> "none", sql_queries |-> <<>>, direct |-> <<>>, next |-> 1,
           response_text |-> <<>>, pending |-> NoRet, ret |-> NoRet, closes |-> 0,
           close_raised |-> FALSE, exited |-> FALSE]

\* user_query.lower(), as the set of the keywords it contains
UserQueries == { {}, {"table", "list"}, {"show", "table", "ddl"}, {"ddl"},
                 {"create", "table"}, {"create", "table", "schema"}, {"ddl", "database"} }

\* the texts extract_sql_queries may return: distinct queries
QueryTexts == { <<"SELECT a">>, <<"SELECT b">>, <<"SHOW TABLES">> }
ExtractedQueries ==
    { qs \in UNION { [1..n -> QueryTexts] : n \in 0..MaxSessionQueries } :
          \A i, j \in DOMAIN qs : i # j => qs[i] # qs[j] }

\* run_llm_query_enhanced, "Handle common queries directly": the tool calls
\* chosen by the keywords of the user query
direct_calls(query_lower) ==
    IF "table" \in query_lower /\ ("list" \in query_lower \/ "show" \in query_lower)
    THEN << [tool |-> "get_table_info", arg |-> <<>>] >>
    ELSE IF "ddl" \in query_lower \/ ("create" \in query_lower /\ "table" \in query_lower)
    THEN IF "complete" \in query_lower \/ "database" \in query_lower \/ "schema" \in query_lower
         THEN << [tool |-> "generate_database_schema", arg |-> <<>>] >>
         ELSE << [tool |-> "generate_table_ddl", arg |-> <<"inventory">>],
                 [tool |-> "generate_table_ddl", arg |-> <<"sales">>] >>
    ELSE <<>>

\* the handler of the outer try: except Exception
Unexpected(msg) == Result(TRUE, <<"Unexpected error: ">> \o msg, <<>>)

\* a call_tool made by the session and the envelope it returned
Called(tool, arg, envelope) == [tool |-> tool, arg |-> arg, error |-> envelope.error]

\* the envelopes a call_tool may return (C1)
Envelopes == { Envelope(FALSE, <<"rows">>), Envelope(TRUE, <<"Request timeout">>) }

\* the function is entered; GroqLLMClient() raises ValueError when
\* GROQ_API_KEY is not set, MCPSQLClient() is built otherwise
RunEnter(user_query, has_key) ==
    /\ sess.pc = "none"
    /\ sess' = IF has_key
               THEN [sess EXCEPT !.pc = "start", !.user_query = user_query]
               ELSE [sess EXCEPT !.pc = "done", !.user_query = user_query,
                                 !.ret = Unexpected(<<"GROQ_API_KEY not found in environment variables">>)]
    /\ UNCHANGED <<backendVars, hostVars, clientVars>>

\* await mcp_client.start_server(), and the sleep that follows a True
RunStartServer(server_started) ==
    /\ sess.pc = "start"
    /\ sess' = IF server_started
               THEN [sess EXCEPT !.pc = "test", !.server_started = "True"]
               ELSE [sess EXCEPT !.pc = "done", !.server_started = "False",
                                 !.ret = Result(TRUE, <<"Failed to start MCP server. Please ensure:">>, <<>>)]
    /\ UNCHANGED <<backendVars, hostVars, clientVars>>

\* a plausible slip: the early return sits outside the try whose finally
\* closes the proxy
RunTestConnectionNoClose(test_result) ==
    /\ sess.pc = "test"
    /\ sess' = IF test_result.error
               THEN [sess EXCEPT !.pc = "done",
                                 !.calls = Append(@, Called("test_connection", <<>>, test_result)),
                                 !.ret = Result(TRUE, <<"Database connection failed: ">>
                                                      \o test_result.result, <<>>)]
               ELSE [sess EXCEPT !.pc = "context",
                                 !.calls = Append(@, Called("test_connection", <<>>, test_result))]
    /\ UNCHANGED <<backendVars, hostVars, clientVars>>

\* test_result = await mcp_client.call_tool("test_connection")
RunTestConnection(test_result) ==
    /\ sess.pc = "test"
    /\ sess' = IF test_result.error
               THEN [sess EXCEPT !.pc = "finally",
                                 !.calls = Append(@, Called("test_connection", <<>>, test_result)),
                                 !.pending = Result(TRUE, <<"Database connection failed: ">>
                                                          \o test_result.result, <<>>)]
               ELSE [sess EXCEPT !.pc = "context",
                                 !.calls = Append(@, Called("test_connection", <<>>, test_result))]
    /\ UNCHANGED <<backendVars, hostVars, clientVars>>

\* context_result = await mcp_client.call_tool("get_table_info")
RunGetContext(context_result) ==
    /\ sess.pc = "context"
    /\ sess' = [sess EXCEPT !.pc = "llm",
                            !.calls = Append(@, Called("get_table_info", <<>>, context_result))]
    /\ UNCHANGED <<backendVars, hostVars, clientVars>>

\* llm_response = await llm_client.generate_response(...): an error record,
\* or a response text with the queries extracted from it
RunGenerateResponse(llm_error, sql_queries) ==
    /\ sess.pc = "llm"
    /\ sess' = IF llm_error
               THEN [sess EXCEPT !.pc = "finally", !.llm = "error",
                                 !.pending = Result(TRUE, <<"Error generating response: ">>, <<>>)]
               ELSE [sess EXCEPT !.pc = "direct", !.llm = "ok",
                                 !.sql_queries = sql_queries,
                                 !.response_text = <<"response">>,
                                 !.direct = direct_calls(sess.user_query)]
    /\ UNCHANGED <<backendVars, hostVars, clientVars>>

\* one of the direct tool calls; its result is appended when it succeeded
RunDirectCall(result) ==
    /\ sess.pc = "direct"
    /\ sess.direct # <<>>
    /\ sess' = [sess EXCEPT
                   !.calls = Append(@, Called(Head(sess.direct).tool, Head(sess.direct).arg, result)),
                   !.direct = Tail(@),
                   !.response_text = IF result.error THEN @ ELSE @ \o result.result]
    /\ UNCHANGED <<backendVars, hostVars, clientVars>>

\* the direct calls are done; the loop over sql_queries begins
RunQueriesBegin ==
    /\ sess.pc = "direct"
    /\ sess.direct = <<>>
    /\ sess' = [sess EXCEPT !.pc = "queries", !.next = 1]
    /\ UNCHANGED <<backendVars, hostVars, clientVars>>

\* a plausible slip: the loop over the queries stops at the first failure
RunQueryCallStopsOnError(result) ==
    /\ sess.pc = "queries"
    /\ sess.next <= Len(sess.sql_queries)
    /\ sess' = [sess EXCEPT
                   !.calls = Append(@, Called("run_query", sess.sql_queries[sess.next], result)),
                   !.next = IF result.error THEN Len(sess.sql_queries) + 1 ELSE @ + 1,
                   !.response_text = @ \o (IF result.error THEN <<"Error: ">> ELSE <<"Result: ">>)
                                       \o result.result]
    /\ UNCHANGED <<backendVars, hostVars, clientVars>>

\* result = await mcp_client.call_tool("run_query", {"query": sql_query}),
\* for the next query of the list
RunQueryCall(result) ==
    /\ sess.pc = "queries"
    /\ sess.next <= Len(sess.sql_queries)
    /\ sess' = [sess EXCEPT
                   !.calls = Append(@, Called("run_query", sess.sql_queries[sess.next], result)),
                   !.next = @ + 1,
                   !.response_text = @ \o (IF result.error THEN <<"Error: ">> ELSE <<"Result: ">>)
                                       \o result.result]
    /\ UNCHANGED <<backendVars, hostVars, clientVars>>

\* the return at the end of the inner try
RunReturn ==
    /\ sess.pc = "queries"
    /\ sess.next > Len(sess.sql_queries)
    /\ sess' = [sess EXCEPT !.pc = "finally",
                            !.pending = Result(FALSE, sess.response_text, sess.sql_queries)]
    /\ UNCHANGED <<backendVars, hostVars, clientVars>>

\* finally: await mcp_client.close().  close raises ProcessLookupError when
\* the subprocess has already exited (terminate on a finished transport);
\* the exception replaces the pending return and reaches the outer handler
RunClose(close_raises) ==
    /\ sess.pc = "finally"
    /\ close_raises => sess.exited
    /\ sess' = [sess EXCEPT !.pc = "done",
                            !.closes = @ + 1,
                            !.close_raised = close_raises,
                            !.ret = IF close_raises THEN Unexpected(<<>>) ELSE sess.pending]
    /\ UNCHANGED <<backendVars, hostVars, clientVars>>

\* the subprocess exits on its own while the session runs
SubprocessExits ==
    /\ sess.server_started = "True"
    /\ sess.pc # "done"
    /\ ~sess.exited
    /\ sess' = [sess EXCEPT !.exited = TRUE]
    /\ UNCHANGED <<backendVars, hostVars, clientVars>>

NoReq == [n |-> 0, line |-> [kind |-> "none"], responses |-> <<>>, invoked |-> FALSE, caught |-> "none",
          prev |-> [kind |-> "none"]]
InitBackend ==
    /\ sql_tool = NewTool
    /\ issued = <<>>
    /\ nfail = 0
    /\ lastOp = NoOp

InitHostOff ==
    /\ hpc = "none"
    /\ exitcode = "None"
    /\ dbReachable \in BOOLEAN
    /\ stdin = <<>>
    /\ stdinEOF = FALSE
    /\ outbuf = <<>>
    /\ stdout = <<>>
    /\ termSignal = FALSE
    /\ fed = 0
    /\ lastReq = NoReq

InitClient ==
    /\ process = "None"
    /\ scriptExists \in BOOLEAN
    /\ cpc = "idle"
    /\ returncode = "None"
    /\ connLost = FALSE
    /\ cstate = "Unstarted"
    /\ ss_ret = "None"
    /\ ct_ret = NoRet
    /\ raised = NoExc
    /\ call = NoCall
    /\ ncalls = 0
    /\ nclose = 0
    /\ sess = NoSess

\* ---- the backend alone: a SQLQueryTool driven by direct method calls ----
InitB == InitBackend /\ InitHostOff /\ dbReachable = TRUE /\ InitClient /\ scriptExists = TRUE

NextB ==
    \/ \E query \in Queries, oc \in DbOutcomes : BRunQuery(query, oc)
    \/ BGetQueryHistory
    \/ BGetLastQuery

SpecBackend == InitB /\ [][NextB]_vars

\* ---- the backend's DDL operations, driven by direct method calls ----
NextDdl ==
    \/ \E table_name \in TableNames, oc \in DdlOutcomes : BGenerateTableDdl(table_name, oc)
    \/ \E database_name \in {None, <<"shop">>}, listing \in ListingOutcomes,
          ocs \in [1..2 -> SchemaOutcomes] :
              BGenerateDatabaseSchema(database_name, listing, ocs)

SpecDdl == InitB /\ [][NextDdl]_vars

\* ---- the host alone ----
InitH == InitBackend /\ InitHostOff /\ InitClient /\ scriptExists = TRUE

HostLaunch ==
    /\ hpc = "none"
    /\ hpc' = "startup"
    /\ UNCHANGED <<backendVars, exitcode, dbReachable, stdin, stdinEOF, outbuf, stdout, termSignal, fed, lastReq, clientVars, sess>>

NextH ==
    \/ HostLaunch
    \/ HostInitFail
    \/ \E oc \in DbOutcomes : HostInitOk(oc)
    \/ \E oc \in DbOutcomes : HostHandle(oc)
    \/ HostInput
    \/ HostEOF
    \/ \E line \in InputLines : FeedLine(line)
    \/ FeedEOF

SpecHost == InitH /\ [][NextH]_vars

\* the interpreter keeps running the host's code: module body, loop body,
\* input() and the exit after the loop are not suspended forever
HostRuns ==
    \/ HostInitFail
    \/ \E oc \in DbOutcomes : HostInitOk(oc)
    \/ \E oc \in DbOutcomes : HostHandle(oc)
    \/ HostInput
    \/ HostEOF

SpecHostFair == SpecHost /\ WF_vars(HostRuns)

\* ---- the whole system: one proxy driving the host it spawned ----

\* the tool calls a session makes
ClientCalls ==
    { <<"test_connection", NoArgs>>, <<"get_last_query", NoArgs>>, <<"get_table_info", NoArgs>>,
      <<"run_query", NoArgs>>, <<"drop_table", NoArgs>>,
      <<"run_query", QueryArgs(<<"SELECT a">>)>> }

Init == InitBackend /\ InitHostOff /\ InitClient

ProxyNext(calls) ==
    \/ StartNoScript
    \/ StartSpawnFails
    \/ StartSpawn
    \/ StartCheck
    \/ StartReadStderr
    \/ LoopReap
    \/ LoopPipesLost
    \/ \E c \in calls : CallNotStarted(c[1], c[2])
    \/ \E c \in calls : CallBrokenPipe(c[1], c[2])
    \/ \E c \in calls : CallSend(c[1], c[2])
    \/ CallReadLine
    \/ CallReadEOF
    \/ CallTimeout
    \/ CloseNoProcess
    \/ CloseTerminateRaises
    \/ CloseTerminate
    \/ CloseWaited
    \/ CloseWaitTimeout
    \/ CloseKillWaited
    \/ HostSigterm

Next ==
    \/ ProxyNext(ClientCalls)
    \/ HostInitFail
    \/ \E oc \in DbOutcomes : HostInitOk(oc)
    \/ \E oc \in DbOutcomes : HostHandle(oc)
    \/ HostInput

Spec == Init /\ [][Next]_vars

\* ---- the proxy against a subprocess that may behave in any way ----

\* lines a subprocess may write to its output
ForeignLines ==
    { ResultResponse(JNum(RequestId), <<"rows">>),
      ErrorResponse(JNum(RequestId), <<"Tool x not found">>),
      JsonLine(JObj([id |-> JNum(RequestId), result |-> JObj([content |-> JList(<<JStr(T("rows"))>>)])])),
      JsonLine(JNum(5)),
      UndecodableLine,
      GarbageLine }

\* the subprocess prints a line and flushes it
ForeignWrite(line) ==
    /\ hpc \in {"startup", "idle"}
    /\ Len(stdout) < MaxForeign
    /\ stdout' = Append(stdout, line)
    /\ UNCHANGED <<backendVars, hpc, exitcode, dbReachable, stdin, stdinEOF, outbuf, termSignal, fed, lastReq, clientVars, sess>>

\* the subprocess reads a line of its input
ForeignRead ==
    /\ hpc \in {"startup", "idle"}
    /\ stdin # <<>>
    /\ stdin' = Tail(stdin)
    /\ hpc' = "idle"
    /\ UNCHANGED <<backendVars, exitcode, dbReachable, stdinEOF, outbuf, stdout, termSignal, fed, lastReq, clientVars, sess>>

\* the subprocess exits of its own accord
ForeignExit(status) ==
    /\ hpc \in {"startup", "idle"}
    /\ hpc' = "exited"
    /\ exitcode' = status
    /\ termSignal' = FALSE
    /\ UNCHANGED <<backendVars, dbReachable, stdin, stdinEOF, outbuf, stdout, fed, lastReq, clientVars, sess>>

ProxyCalls == { <<"run_query", QueryArgs(<<"SELECT a">>)>> }

InitP == Init /\ dbReachable = TRUE

NextP ==
    \/ ProxyNext(ProxyCalls)
    \/ \E line \in ForeignLines : ForeignWrite(line)
    \/ ForeignRead
    \/ \E status \in {"0", "1"} : ForeignExit(status)

SpecProxy == InitP /\ [][NextP]_vars

\* ---- call_tool's handling of a response line, over the shapes of a line ----

MaxPreloaded == 2

\* lines call_tool may find on the subprocess's output
ResponseLines ==
    { ResultResponse(JNum(RequestId), <<"rows">>),
      ErrorResponse(JNum(RequestId), <<"Tool x not found">>),
      JsonLine(JObj([id |-> JNum(RequestId),
                     error |-> JObj([code |-> JNum(ErrorCode), message |-> JStr(<<"m">>)]),
                     result |-> JObj([content |->
                         JList(<<JObj([type |-> JStr(T("text")), text |-> JStr(<<"rows">>)])>>)])])),
      JsonLine(JObj([id |-> JNum(RequestId), result |-> JObj([content |-> JList(<<>>)])])),
      JsonLine(JObj([id |-> JNum(RequestId), result |-> JObj([content |-> JStr(T("rows"))])])),
      JsonLine(JObj([id |-> JNum(RequestId), result |-> JObj([content |-> JList(<<JStr(T("rows"))>>)])])),
      JsonLine(JObj([id |-> JNum(RequestId), result |-> JStr(T("rows"))])),
      JsonLine(JObj([id |-> JNum(RequestId), result |-> JNull])),
      JsonLine(JObj([id |-> JNum(RequestId)])),
      JsonLine(JNum(5)),
      UndecodableLine,
      GarbageLine,
      BlankLine }

Preloaded == UNION { [1..n -> ResponseLines] : n \in 1..MaxPreloaded }

\* a Ready proxy whose subprocess has lines waiting on its output
InitD ==
    /\ InitBackend
    /\ hpc = "idle" /\ exitcode = "None" /\ dbReachable = TRUE
    /\ stdin = <<>> /\ stdinEOF = FALSE /\ outbuf = <<>>
    /\ stdout \in Preloaded
    /\ termSignal = FALSE /\ fed = 0 /\ lastReq = NoReq
    /\ process = "Process" /\ scriptExists = TRUE /\ cpc = "idle"
    /\ returncode = "None" /\ connLost = FALSE
    /\ cstate = "Ready" /\ ss_ret = "True"
    /\ ct_ret = NoRet /\ raised = NoExc /\ call = NoCall
    /\ ncalls = 0 /\ nclose = 0
    /\ sess = NoSess

NextD ==
    \/ \E c \in ProxyCalls : CallSend(c[1], c[2])
    \/ CallReadLine

SpecDecode == InitD /\ [][NextD]_vars

\* ---- one session, its callees' results and the subprocess's exit free ----
NextS ==
    \/ \E user_query \in UserQueries, has_key \in BOOLEAN : RunEnter(user_query, has_key)
    \/ \E server_started \in BOOLEAN : RunStartServer(server_started)
    \/ \E test_result \in Envelopes : RunTestConnection(test_result)
    \/ \E context_result \in Envelopes : RunGetContext(context_result)
    \/ \E llm_error \in BOOLEAN, sql_queries \in ExtractedQueries :
           RunGenerateResponse(llm_error, sql_queries)
    \/ \E result \in Envelopes : RunDirectCall(result)
    \/ RunQueriesBegin
    \/ \E result \in Envelopes : RunQueryCall(result)
    \/ RunReturn
    \/ \E close_raises \in BOOLEAN : RunClose(close_raises)
    \/ SubprocessExits

SpecSession == InitB /\ [][NextS]_vars

\* the event loop runs a pending read to its end: a line, end of stream, or
\* the expiry of the 30-second timer
ReadResolves == CallReadLine \/ CallReadEOF \/ CallTimeout

SpecProxyFair == SpecProxy /\ WF_vars(ReadResolves)

----------------------------------------------------------------------------
\* Properties

\* the line is a tools/call request whose params name a tool with a string
IsToolCall(line) ==
    /\ line.kind = "json"
    /\ line.val.t = "obj"
    /\ Get(line.val, "method", JNull) = JStr(T("tools/call"))
    /\ "params" \in DOMAIN line.val.f
    /\ line.val.f["params"].t = "obj"
    /\ "name" \in DOMAIN line.val.f["params"].f
    /\ line.val.f["params"].f["name"].t = "str"

ToolNameOf(line) == line.val.f["params"].f["name"].s

RegisteredNames == { T(name) : name \in tools }

LastOf(seq) == seq[Len(seq)]

\* C1: every call_tool invocation, whatever the state of the proxy and
\* whatever the subprocess did, ends by returning a record with exactly the
\* fields error (a boolean) and result; no exception escapes call_tool.
C1_CallToolAlwaysEnvelope ==
    /\ raised.op # "call_tool"
    /\ (call.tool # "none" /\ cpc # "ct_read") =>
           /\ DOMAIN ct_ret = {"error", "result"}
           /\ ct_ret.error \in BOOLEAN

\* a call that read a line which decodes to something that is no JSON object
C1_Witness ==
    /\ call.tool # "none" /\ cpc = "idle" /\ call.reads = 1
    /\ ct_ret = Envelope(TRUE, <<"argument is not iterable">>)

\* C2: when the function of a registered tool raises into the dispatcher
\* (a failure to bind the arguments included), the request is answered by
\* one response line carrying an error field.
C2_RaiseAnsweredByError ==
    (/\ lastReq.n > 0
     /\ IsToolCall(lastReq.line)
     /\ ToolNameOf(lastReq.line) \in RegisteredNames
     /\ lastReq.caught # "none")
    => /\ Len(lastReq.responses) = 1
       /\ "error" \in DOMAIN lastReq.responses[1].val.f

\* C3: a tools/call request for a name outside the registered table makes
\* the host print exactly one line, which carries an error (code -1, a
\* message naming the tool) and no result; no backend operation runs.
C3_UnknownToolError ==
    [][(lastReq'.n # lastReq.n /\ IsToolCall(lastReq'.line)
          /\ ToolNameOf(lastReq'.line) \notin RegisteredNames)
       => /\ Len(outbuf') = Len(outbuf) + 1
          /\ SubSeq(outbuf', 1, Len(outbuf)) = outbuf
          /\ LET response == LastOf(outbuf').val
             IN  /\ DOMAIN response.f = {"jsonrpc", "id", "error"}
                 /\ response.f["id"] = Get(lastReq'.line.val, "id", JNull)
                 /\ response.f["error"] =
                       JObj([code |-> JNum(-1),
                             message |-> JStr(<<"Tool ">> \o ToolNameOf(lastReq'.line)
                                                \o <<" not found">>)])
          /\ ~lastReq'.invoked
          /\ sql_tool' = sql_tool
          /\ issued' = issued]_vars

\* the error line for an unknown tool has reached the host's output pipe
C3_Witness ==
    /\ lastReq.n > 0
    /\ IsToolCall(lastReq.line)
    /\ ToolNameOf(lastReq.line) = T("drop_table")
    /\ stdout # <<>>
    /\ "error" \in DOMAIN LastOf(stdout).val.f
    /\ hpc = "idle"

\* C4: the history never holds more than 10 entries, and once more than 10
\* run_query calls have been made it holds exactly 10 entries, the 10 most
\* recently issued queries in call order.
C4_HistoryIsLastTen ==
    LET h == sql_tool.executed_queries
        n == Len(issued)
    IN  /\ Len(h) <= 10
        /\ n > 10 => /\ Len(h) = 10
                     /\ \A i \in 1..10 : h[i].query = strip(issued[n - 10 + i].query)

\* C5: a run_query whose execution fails returns the error text and leaves,
\* as the newest history entry, the attempted query with that error text.
C5_FailureIsRecorded ==
    (lastOp.op = "run_query" /\ lastOp.raises)
    => /\ lastOp.ret = <<"Error executing query: ", "db error">>
       /\ sql_tool.executed_queries # <<>>
       /\ LastOf(sql_tool.executed_queries) =
              [query |-> strip(lastOp.query), result |-> lastOp.ret]

\* C6: a close made after a close has returned raises nothing.
C6_SecondCloseQuiet ==
    nclose >= 1 => raised.op # "close"

\* C7: a read that finds neither a line nor the end of the stream resolves
\* to the "Request timeout" failure envelope, and every pending read
\* resolves.
C7_SilentHostTimesOut ==
    /\ [][(cpc = "ct_read" /\ cpc' # "ct_read" /\ stdout = <<>> /\ hpc # "exited")
          => ct_ret' = Envelope(TRUE, <<"Request timeout">>)]_vars
    /\ (cpc = "ct_read") ~> (cpc = "idle")

\* a call that timed out against a live subprocess that never read the
\* request nor wrote anything
C7_Witness ==
    /\ cpc = "idle" /\ call.reads = 1
    /\ ct_ret = Envelope(TRUE, <<"Request timeout">>)
    /\ hpc = "startup" /\ stdin # <<>> /\ stdout = <<>>

\* C8: an invocation of call_tool on a spawned subprocess writes exactly
\* one request line (id 1, method tools/call) and reads at most one line;
\* while a read is pending no request line is added, and the invocation
\* ends with the first line it consumes.
C8_OneRequestOneRead ==
    /\ [](/\ call.writes <= 1
          /\ call.reads <= 1
          /\ fed <= ncalls
          /\ call.spawned =>
                /\ call.writes = 1
                /\ call.line.val.f["id"] = JNum(1)
                /\ call.line.val.f["method"] = JStr(T("tools/call")))
    /\ [][cpc = "ct_read" =>
             /\ Len(stdin') <= Len(stdin)
             /\ Len(stdout') < Len(stdout) => (Len(stdout') = Len(stdout) - 1 /\ cpc' = "idle")
             /\ cpc' = "idle" => call'.reads = 1]_vars

\* a call that ended on a malformed line while another line was waiting
C8_Witness ==
    /\ cpc = "idle" /\ call.writes = 1 /\ call.reads = 1
    /\ ct_ret = Envelope(TRUE, <<"Invalid response from server">>)
    /\ stdout # <<>>

\* C9: a call_tool invoked while the proxy is not Ready writes nothing to
\* the subprocess's input and returns a failure envelope.
C9_OnlyReadyWrites ==
    (call.tool # "none" /\ call.from # "Ready")
    => /\ call.writes = 0
       /\ cpc = "idle" => ct_ret.error

\* C10: with a database whose connection cannot be verified the host never
\* reaches its read loop and exits with status 1, and start_server returns
\* False.
C10_UnreachableDbFailsStart ==
    ~dbReachable
    => /\ hpc \notin {"idle", "dispatched"}
       /\ exitcode \in {"None", "1", "-15", "-9"}
       /\ ss_ret \in {"None", "False"}

\* the line read by the ended call is one the host printed for a counted request
ReadAnswer == cpc = "idle" /\ call.got.kind # "none" /\ "for" \in DOMAIN call.got

\* C11: a response line that the host writes after the call it answers has
\* timed out is never returned as the result of a later call: a call that
\* returns a line of the host returns the line written for its own request.
C11_StaleLineDiscarded ==
    ReadAnswer => call.got.for = call.reqno

\* the line lacks something the dispatcher needs: it is no JSON document, no
\* JSON object, or has no method / params object / tool name
BadLine(line) ==
    \/ line.kind \in {"garbage", "blank"}
    \/ /\ line.kind = "json"
       /\ \/ line.val.t # "obj"
          \/ "method" \notin DOMAIN line.val.f
          \/ "params" \notin DOMAIN line.val.f
          \/ line.val.f["params"].t # "obj"
          \/ "name" \notin DOMAIN line.val.f["params"].f

\* a tools/call request whose arguments, if the tool is registered, bind
Answerable(line) ==
    /\ IsToolCall(line)
    /\ ToolNameOf(line) \in RegisteredNames =>
           Binds(ToolNameOf(line)[1], Get(line.val.f["params"], "arguments", NoArgs))

\* C12: handling a line that is not valid JSON or lacks the expected fields
\* prints nothing and leaves the host running; the host then waits for
\* input again and answers a well-formed request that follows; the host
\* exits only at startup or at the end of its input.
C12_HostSurvivesBadLine ==
    /\ [][lastReq'.n # lastReq.n =>
             /\ BadLine(lastReq'.line) =>
                    /\ outbuf' = outbuf /\ stdout' = stdout
                    /\ hpc' = "dispatched" /\ exitcode' = "None"
             /\ (BadLine(lastReq'.prev) /\ Answerable(lastReq'.line)) =>
                    /\ Len(outbuf') = Len(outbuf) + 1
                    /\ LastOf(outbuf').val.f["id"] = Get(lastReq'.line.val, "id", JNull)]_vars
    /\ [][hpc = "dispatched" => hpc' \in {"dispatched", "idle"}]_vars
    /\ [][(hpc # "exited" /\ hpc' = "exited") =>
             (hpc = "startup" \/ (hpc = "idle" /\ stdin = <<>> /\ stdinEOF))]_vars

\* a request answered after a line of garbage that got no response
C12_Witness ==
    /\ lastReq.n = 2
    /\ lastReq.prev = GarbageLine
    /\ Answerable(lastReq.line)
    /\ hpc = "idle"
    /\ Len(stdout) = 1 /\ stdout[1].for = 2

\* C13: whenever the host blocks on its next input line nothing it printed
\* is still in its output buffer: the response to the request it handled
\* last is in the pipe, readable by the proxy.
C13_FlushedBeforeIdle ==
    /\ hpc = "idle" => outbuf = <<>>
    /\ (hpc = "idle" /\ lastReq.responses # <<>>) =>
           /\ stdout # <<>>
           /\ LastOf(stdout).for = lastReq.n
           /\ LastOf(stdout).val = lastReq.responses[1].val

\* the host waits for input after a tool ran, its response in the pipe
C13_Witness ==
    /\ hpc = "idle"
    /\ lastReq.invoked
    /\ stdout # <<>> /\ LastOf(stdout).for = lastReq.n
    /\ "result" \in DOMAIN LastOf(stdout).val.f

\* C14: a close invoked on a Ready proxy raises nothing, and a proxy that
\* close has left Closed has a subprocess that has exited and been reaped.
C14_CloseEndsClosed ==
    /\ cstate = "Ready" => raised.op # "close"
    /\ (cstate = "Closed" /\ process = "Process") => (hpc = "exited" /\ returncode # "None")

\* the payload call_tool's success branch may render for a result value
Renderings(result) ==
    {PyStr(result)} \cup
    (IF result.t = "obj" /\ "content" \in DOMAIN result.f THEN {PyStr(result.f["content"])} ELSE {})

\* the result holds a content list whose first item is an object with a text
IsTextItem(result) ==
    /\ result.t = "obj"
    /\ "content" \in DOMAIN result.f
    /\ result.f["content"].t = "list"
    /\ result.f["content"].items # <<>>
    /\ result.f["content"].items[1].t = "obj"
    /\ "text" \in DOMAIN result.f["content"].items[1].f

\* the call ended on a line that decodes to a JSON object
ReadObject == cpc = "idle" /\ call.got.kind = "json" /\ call.got.val.t = "obj"

\* C15: for a decoded response object without an error field call_tool
\* returns a success envelope: the text of the content item when the result
\* is a text content item, a string rendering of the value for every other
\* shape of the result.
C15_ResultShapes ==
    (ReadObject /\ "error" \notin DOMAIN call.got.val.f) =>
        LET result == Get(call.got.val, "result", JObj(<<>>))
        IN  /\ ct_ret.error = FALSE
            /\ IF IsTextItem(result)
               THEN ct_ret.result = result.f["content"].items[1].f["text"].s
               ELSE ct_ret.result \in Renderings(result)

\* C16: a response object with an error field gives the failure envelope
\* holding the stringified error, whatever else the object holds; a line
\* that is not JSON gives the failure envelope "Invalid response from
\* server"; the line read is removed from the stream.
C16_ErrorAndUndecodable ==
    /\ [](/\ (ReadObject /\ "error" \in DOMAIN call.got.val.f) =>
                 ct_ret = Envelope(TRUE, PyStr(call.got.val.f["error"]))
          /\ (cpc = "idle" /\ call.got.kind \in {"garbage", "blank", "badutf8"}) =>
                 ct_ret = Envelope(TRUE, <<"Invalid response from server">>))
    /\ [][call'.reads = call.reads + 1 /\ call'.got.kind # "none" =>
             (stdout # <<>> /\ call'.got = Head(stdout) /\ stdout' = Tail(stdout))]_vars

\* C17: a call_tool issued when the subprocess has exited never returns a
\* success envelope; when it ends without having read a line its failure
\* envelope holds "No response from server", "Request timeout", or the
\* message of the stream error.
C17_CallOnDeadHostFails ==
    (call.tool # "none" /\ call.hostGone /\ cpc = "idle") =>
        /\ ct_ret.error = TRUE
        /\ call.got.kind = "none" =>
               ct_ret.result \in {<<"No response from server">>, <<"Request timeout">>,
                                  <<"Connection lost">>}

\* C18: a request is written only by a call_tool that starts while no other
\* call_tool is running, the previous one (if any) having returned its
\* envelope.
C18_OneCallInFlight ==
    /\ [][ncalls' # ncalls =>
             /\ cpc = "idle"
             /\ ncalls' = ncalls + 1
             /\ call.tool # "none" => DOMAIN ct_ret = {"error", "result"}]_vars
    /\ [][(fed' # fed \/ Len(stdin') > Len(stdin)) => (ncalls' = ncalls + 1 /\ cpc = "idle")]_vars

\* the second request is written after the first call timed out, while the
\* host has read neither
C18_Witness ==
    /\ ncalls = 2 /\ cpc = "ct_read"
    /\ Len(stdin) = 2
    /\ ct_ret = TimedOut

\* C19: when the call reads the response to its own request, a run_query
\* whose execution failed comes back as a result response and a success
\* envelope holding the error text, and a tool name outside the table comes
\* back as an error response and a failure envelope.
C19_BackendErrorIsSuccess ==
    (ReadAnswer /\ call.got.for = call.reqno /\ lastReq.n = call.reqno) =>
        /\ (call.tool = "run_query" /\ lastReq.invoked /\ issued # <<>> /\ LastOf(issued).raises) =>
               /\ DOMAIN call.got.val.f = {"jsonrpc", "id", "result"}
               /\ ct_ret = Envelope(FALSE, <<"Error executing query: ", "db error">>)
        /\ call.tool \notin tools =>
               /\ DOMAIN call.got.val.f = {"jsonrpc", "id", "error"}
               /\ ct_ret.error = TRUE

\* a failed query has come back as a success envelope
C19_Witness ==
    /\ ReadAnswer /\ call.got.for = call.reqno
    /\ call.tool = "run_query" /\ LastOf(issued).raises
    /\ ct_ret = Envelope(FALSE, <<"Error executing query: ", "db error">>)

\* C20: every line the host prints is an object with jsonrpc "2.0", the id
\* of the request it answers (null when the request has none) and exactly
\* one of result and error.
C20_ResponseShape ==
    /\ [](\A i \in DOMAIN (stdout \o outbuf) :
             LET response == (stdout \o outbuf)[i].val
             IN  /\ response.f["jsonrpc"] = JStr(T("2.0"))
                 /\ DOMAIN response.f \in {{"jsonrpc", "id", "result"}, {"jsonrpc", "id", "error"}})
    /\ [][lastReq'.n # lastReq.n =>
             \A i \in (Len(outbuf) + 1)..Len(outbuf') :
                 outbuf'[i].val.f["id"] = Get(lastReq'.line.val, "id", JNull)]_vars

\* a result response with a null id, for a request that carried no id
C20_Witness ==
    /\ stdout # <<>>
    /\ LastOf(stdout).val.f["id"] = JNull
    /\ "result" \in DOMAIN LastOf(stdout).val.f
    /\ lastReq.n > 0 /\ "id" \notin DOMAIN lastReq.line.val.f

\* C21: get_last_query returns the most recently executed query, stripped,
\* with that query's result (its error text when it failed), and None
\* values before any query has run; it leaves the tool's state unchanged.
C21_LastQueryIsMostRecent ==
    /\ [](lastOp.op = "get_last_query" =>
             IF issued = <<>>
             THEN lastOp.ret = [query |-> None, result |-> None]
             ELSE lastOp.ret =
                      [query  |-> strip(LastOf(issued).query),
                       result |-> IF LastOf(issued).raises
                                  THEN <<"Error executing query: ", "db error">>
                                  ELSE <<"rows">>])
    /\ [][lastOp'.op = "get_last_query" => UNCHANGED <<sql_tool, issued>>]_vars

\* get_last_query after a failed query that followed a successful one
C21_Witness ==
    /\ lastOp.op = "get_last_query"
    /\ Len(issued) > 1 /\ LastOf(issued).raises
    /\ lastOp.ret.result = <<"Error executing query: ", "db error">>
    /\ sql_tool.executed_queries # <<>>

\* the text run_query hands to generate_table_ddl for an outcome of the
\* introspection query
Introspection(oc) == IF oc.raises THEN <<"Error executing query: ">> \o oc.text ELSE oc.text

\* the lines of a text that hold CREATE TABLE
CreateLines(text) == { i \in DOMAIN split(text, NL) : contains(split(text, NL)[i], CT) }

\* the tab-separated fields of the first line that holds CREATE TABLE
CreateFields(text) ==
    split(split(text, NL)[CHOOSE i \in CreateLines(text) : \A j \in CreateLines(text) : i <= j], TAB)

\* the text has a CREATE TABLE line with a second tab-separated field
Parseable(text) ==
    /\ CreateLines(text) # {}
    /\ Len(CreateFields(text)) > 1
    /\ CreateFields(text)[2] # <<>>

\* C23: generate_table_ddl(t) returns "-- DDL for table: t", a line break,
\* the extracted statement and a semicolon when the introspection output
\* has a CREATE TABLE line with a tab-separated second field, and the
\* introspection output unchanged in every other case.
C23_TableDdl ==
    lastOp.op = "generate_table_ddl" =>
        LET raw == Introspection(lastOp.oc)
        IN  IF Parseable(raw)
            THEN lastOp.ret = <<"-- DDL for table: ">> \o lastOp.query \o <<NL>>
                              \o CreateFields(raw)[2] \o <<";">>
            ELSE lastOp.ret = raw

\* a statement extracted from the second line of the output, below a header
C23_Witness ==
    /\ lastOp.op = "generate_table_ddl"
    /\ lastOp.query = <<"sales">>
    /\ Len(split(Introspection(lastOp.oc), NL)) > 1
    /\ lastOp.ret = <<"-- DDL for table: ", "sales", NL, CT, " inventory (", ";">>

\* the table names of a listing that was obtained
ListedNames(listing) == IF listing.raises THEN <<>> ELSE table_names(split(listing.text, NL))

\* the positions of the table comment headers in a text
TableHeaders(text) == { p \in DOMAIN text : text[p] = "-- DDL for table: " }

\* C30: generate_database_schema returns the schema header followed by one
\* block per table name of the listing, in listing order, each block
\* beginning with the comment header that names its table.
C30_SchemaBlocks ==
    lastOp.op = "generate_database_schema" =>
        LET names == ListedNames(lastOp.listing)
            heads == TableHeaders(lastOp.ret)
        IN  /\ lastOp.ret[1] = "-- Complete Database Schema for: "
            /\ Cardinality(heads) = Len(names)
            /\ \A p \in heads :
                   LET k == Cardinality({ q \in heads : q <= p })
                   IN  /\ lastOp.ret[p - 1] = NL
                       /\ SubSeq(lastOp.ret, p + 1, p + Len(names[k])) = names[k]

\* C22: once the input stream has ended, the host handles the lines still
\* queued, then input() raises EOFError and the process ends with status 0;
\* nothing is handled or printed at or after that point.
C22_EndOfInputEndsLoop ==
    /\ (stdinEOF /\ hpc \in {"idle", "dispatched"}) ~> (hpc = "exited" /\ exitcode = "0")
    /\ [][(hpc = "idle" /\ stdin = <<>> /\ stdinEOF) =>
              /\ hpc' = "exited" /\ exitcode' = "0"
              /\ UNCHANGED <<sql_tool, lastReq, outbuf, stdout>>]_vars
    /\ [][hpc = "exited" =>
              /\ hpc' = "exited"
              /\ UNCHANGED <<sql_tool, lastReq, outbuf, stdout, exitcode>>]_vars

\* the host has ended with status 0 after handling two lines, all output
\* flushed
C22_Witness ==
    /\ hpc = "exited" /\ exitcode = "0"
    /\ stdinEOF /\ stdin = <<>>
    /\ lastReq.n = 2
    /\ outbuf = <<>> /\ stdout # <<>>

\* the line is a JSON object whose method is not "tools/call", or absent
OtherMethod(line) ==
    /\ line.kind = "json"
    /\ line.val.t = "obj"
    /\ Get(line.val, "method", JNull) # JStr(T("tools/call"))

\* C25: a JSON request line whose method is not "tools/call", or that has
\* no method, makes the host print nothing: no response line is written
\* for it, no tool runs and no exception is logged.
C25_OtherMethodUnanswered ==
    [][(lastReq'.n # lastReq.n /\ OtherMethod(lastReq'.line)) =>
           /\ outbuf' = outbuf /\ stdout' = stdout
           /\ lastReq'.responses = <<>>
           /\ ~lastReq'.invoked /\ lastReq'.caught = "none"
           /\ UNCHANGED <<sql_tool, issued>>]_vars

\* a request without a method was handled and the host is back in input()
\* with nothing printed
C25_Witness ==
    /\ hpc = "idle" /\ lastReq.n > 0
    /\ OtherMethod(lastReq.line) /\ "method" \notin DOMAIN lastReq.line.val.f
    /\ "params" \in DOMAIN lastReq.line.val.f
    /\ stdout = <<>> /\ outbuf = <<>>

\* C26: the history and the last-query record change only when a query is
\* executed; get_table_info, get_last_query and unknown names leave them
\* unchanged; test_connection, generate_table_ddl and
\* generate_database_schema run their queries through run_query, overwrite
\* the last query and add history entries.
C26_FrameEffects ==
    /\ [][sql_tool' # sql_tool => issued' # issued]_vars
    /\ [][(lastReq'.n # lastReq.n /\ IsToolCall(lastReq'.line)) =>
              LET name == ToolNameOf(lastReq'.line)
              IN  /\ (name \in {T("get_table_info"), T("get_last_query")}
                         \/ name \notin RegisteredNames) => UNCHANGED sql_tool
                  /\ (/\ name \in {T("test_connection"), T("generate_table_ddl"),
                                   T("generate_database_schema")}
                      /\ lastReq'.invoked) =>
                         /\ issued' # issued
                         /\ sql_tool'.last_query = strip(LastOf(issued').query)
                         /\ Len(sql_tool'.executed_queries) > Len(sql_tool.executed_queries)
                         /\ LastOf(sql_tool'.executed_queries).query = sql_tool'.last_query]_vars

C27_CloseOnEveryPath ==
    /\ sess.closes <= 1
    /\ sess.closes = 1 => sess.pc = "done" /\ sess.server_started = "True"
    /\ (sess.pc = "done" /\ sess.server_started = "True") => sess.closes = 1
    /\ (sess.pc = "done" /\ sess.server_started = "False") =>
           /\ sess.calls = <<>> /\ sess.closes = 0
           /\ sess.ret.error = TRUE

\* the session ended on a test_connection failure, closed once
C27_Witness ==
    /\ sess.pc = "done" /\ sess.server_started = "True"
    /\ Len(sess.calls) = 1 /\ sess.calls[1].error
    /\ sess.closes = 1 /\ ~sess.close_raised
    /\ sess.ret.output[1] = "Database connection failed: "

\* every tool call of the session returned a success envelope and the LLM
\* call succeeded
AllSucceeded ==
    /\ sess.llm = "ok"
    /\ \A i \in DOMAIN sess.calls : ~sess.calls[i].error

\* C28: run_llm_query_enhanced returns a record with the fields error,
\* output and sql_queries on every path, and the record has error = FALSE
\* whenever every tool call and the LLM call succeeded, whatever close does.
C28_ErrorFalseWhenAllSucceeded ==
    sess.pc = "done" =>
        /\ DOMAIN sess.ret = {"error", "output", "sql_queries"}
        /\ AllSucceeded => sess.ret.error = FALSE

\* the run_query calls of the session, in call order
RECURSIVE RunQueryCalls(_)
RunQueryCalls(calls) ==
    IF calls = <<>> THEN <<>>
    ELSE (IF Head(calls).tool = "run_query" THEN <<Head(calls).arg>> ELSE <<>>)
         \o RunQueryCalls(Tail(calls))

\* C29: the first tool call of a session is test_connection; when it fails
\* no other tool call and no LLM request is made; when it and the LLM call
\* succeed, the run_query calls made by the end of the session are the
\* extracted queries, one call each, in extraction order, whether or not
\* some of them failed.
C29_CallOrder ==
    /\ sess.calls # <<>> => sess.calls[1].tool = "test_connection"
    /\ (sess.calls # <<>> /\ sess.calls[1].error) =>
           /\ Len(sess.calls) = 1
           /\ sess.llm = "none"
    /\ RunQueryCalls(sess.calls) = SubSeq(sess.sql_queries, 1, Len(RunQueryCalls(sess.calls)))
    /\ (sess.pc = "done" /\ sess.llm = "ok") => RunQueryCalls(sess.calls) = sess.sql_queries

\* two queries were run although the first one failed
C29_Witness ==
    /\ sess.pc = "done" /\ sess.llm = "ok"
    /\ Len(sess.sql_queries) = 2
    /\ \E i \in DOMAIN sess.calls :
           /\ sess.calls[i].tool = "run_query" /\ sess.calls[i].error
           /\ i < Len(sess.calls) /\ sess.calls[i + 1].tool = "run_query"

\* start_server returns in this step
StartReturns(v) == ss_ret # v /\ ss_ret' = v

\* C31: start_server returns True only if the subprocess was spawned and had
\* not exited when it was checked after the settle wait; when the server
\* script does not exist it returns False and no subprocess is spawned; when
\* it finds the subprocess exited it returns False only after reading the
\* subprocess's error stream.
C31_StartServerOutcome ==
    [][ /\ StartReturns("True") => (process = "Process" /\ hpc # "exited")
        /\ (StartReturns("False") /\ ~scriptExists) => (process' = "None" /\ hpc' = "none")
        /\ (StartReturns("False") /\ returncode # "None") => cpc = "ss_stderr"
      ]_vars

====
